---- MODULE Spec2Model ----
(***************************************************************************)
(* Model of manual-install/download_apps.py: the NextcloudAppDownloader    *)
(* class (repository resolver, release fetcher, asset selection,           *)
(* per-package download, batch download and run report) and main().        *)
(*                                                                         *)
(* Strings are TLA+ strings; suffix tests, splitting and trimming are      *)
(* computed character by character with SubSeq.  Every HTTP answer and     *)
(* every file-system outcome is an input chosen by the environment at the  *)
(* step that performs the request.                                         *)
(***************************************************************************)
EXTENDS Integers, Sequences, FiniteSets, TLC

VARIABLES
    pc,            \* position of the single thread of control
    caller,        \* who started the current work: "main", "api_apps", "api_app"
    runs,          \* processes started so far (main) / downloaders constructed (api)
    calls,         \* download_app invocations made on the current downloader
    batches,       \* download_apps invocations made on the current downloader
    clock,         \* what datetime.now() returns; its resolution is a program run
    exit_code,     \* process exit status, NoExit while running
    argv,          \* the command line of the process: --custom-apps, --skip-core
    prior,         \* info as the process found it when it started
    stats,         \* self.stats
    app_list,      \* download_apps' argument
    idx,           \* how many entries of app_list the for loop has taken
    app_id,        \* download_app's argument
    probe,         \* index into possible_repos of the next lookup
    repo_info,     \* download_app's local
    release_info,  \* download_app's local
    download_url,  \* download_app's local
    filename,      \* download_app's local
    dirs,          \* package directories that exist under apps_dir
    archives,      \* <<app_id, filename>> of the archive files on disk
    info,          \* content of <apps_dir>/<app_id>/info.json per package
    report_file,   \* content of <apps_dir>/download-report.json
    report,        \* the dict download_apps returned last
    lookups,       \* repository names looked up by the current get_app_repo_info
    steps,         \* steps the current download_app has executed, in order
    returned,      \* <<app_id, result>> of the download_app calls of this batch
    reports_written \* report writes made by the current download_apps call

vars == <<pc, caller, runs, calls, batches, clock, exit_code, argv, prior, stats, app_list, idx,
          app_id, probe, repo_info, release_info, download_url, filename,
          dirs, archives, info, report_file, report, lookups, steps,
          returned, reports_written>>

(***************************************************************************)
(* Bounds of the model.                                                    *)
(***************************************************************************)
\* how many entries of the core list the model keeps
NCore == 1
\* how many times the program is started on the same apps directory
MaxRuns == 2
\* how many download_app invocations a library client makes on one downloader
MaxCalls == 3
\* how many download_apps invocations a library client makes on one downloader
MaxBatches == 1
\* longest list a library client passes to download_apps
MaxListLen == 3

(***************************************************************************)
(* Values.                                                                 *)
(***************************************************************************)
None == [none |-> TRUE]
NoExit == 0 - 1
NoneStr == "<None>"

\* Python truthiness of a dict-or-None / str-or-None value
Falsy(v) == v = None \/ DOMAIN v = {}
FalsyStr(s) == s = NoneStr \/ s = ""

\* dict.get(key, default)
Get(d, key, default) == IF key \in DOMAIN d THEN d[key] ELSE default

\* str.endswith(suffix)
EndsWith(s, suffix) ==
    /\ Len(s) >= Len(suffix)
    /\ SubSeq(s, Len(s) - Len(suffix) + 1, Len(s)) = suffix

\* str.endswith(('.tar.gz', '.zip'))
IsArchiveName(name) == EndsWith(name, ".tar.gz") \/ EndsWith(name, ".zip")

CoreAppsFull == <<"notify_push", "files_texteditor", "richdocuments",
                  "talk", "whiteboard", "clamav", "fulltextsearch">>
core_apps == SubSeq(CoreAppsFull, 1, NCore)

\* possible_repos of get_app_repo_info
possible_repos(app) ==
    << "nextcloud/" \o app,
       "nextcloud/apps_" \o app,
       "nextcloud-releases/" \o app >>

(***************************************************************************)
(* The hosting platform: what a lookup can answer.                         *)
(***************************************************************************)
TransportError == 0 - 1
\* status codes a repository lookup answers; TransportError: session.get raises
LookupStatus == {200, 404, 500, TransportError}
\* status codes the latest-release lookup answers
ReleaseStatus == {200, 404, TransportError}

\* the part of a repository name after the owner
ShortName(app, k) == IF k = 2 THEN "apps_" \o app ELSE app

\* body of a 200 answer to the lookup of possible_repos(app)[k]: a descriptor
\* with every key for the first two names, one whose optional keys (name,
\* description) are absent for the third
RepoBody(app, k) ==
    LET full_name == possible_repos(app)[k]
        html_url  == "https://github.com/" \o full_name
    IN  IF k < 3
        THEN [full_name |-> full_name, name |-> ShortName(app, k),
              description |-> "about " \o ShortName(app, k), html_url |-> html_url]
        ELSE [full_name |-> full_name, html_url |-> html_url]

\* bodies of a 200 answer: the descriptor, or an empty document
RepoBodies(app, k) == { RepoBody(app, k), << >> }

Asset(repo, tag, name) ==
    [name |-> name,
     browser_download_url |->
        "https://github.com/" \o repo \o "/releases/download/" \o tag \o "/" \o name]

Tarball(repo, tag) == "https://api.github.com/repos/" \o repo \o "/tarball/" \o tag

\* bodies of a 200 answer to the latest-release lookup of a repository
Releases(repo) ==
    { \* a documentation file, then two archives
      [tag_name |-> "1.2.0",
       assets |-> << Asset(repo, "1.2.0", "readme.md"),
                     Asset(repo, "1.2.0", "app-1.2.0.tar.gz"),
                     Asset(repo, "1.2.0", "app-1.2.0.zip") >>,
       tarball_url |-> Tarball(repo, "1.2.0")],
      \* the zip listed before the tar.gz
      [tag_name |-> "1.2.0",
       assets |-> << Asset(repo, "1.2.0", "app-1.2.0.zip"),
                     Asset(repo, "1.2.0", "app-1.2.0.tar.gz") >>,
       tarball_url |-> Tarball(repo, "1.2.0")],
      \* no archive among the assets, a source archive
      [tag_name |-> "2.0.0",
       assets |-> << Asset(repo, "2.0.0", "readme.md"),
                     Asset(repo, "2.0.0", "app.tar") >>,
       tarball_url |-> Tarball(repo, "2.0.0")],
      \* no archive among the assets, an empty source-archive URL
      [tag_name |-> "2.0.0",
       assets |-> << Asset(repo, "2.0.0", "app.gz") >>,
       tarball_url |-> ""],
      \* neither an assets key nor a tarball_url key
      [tag_name |-> "2.0.0"],
      \* no tag_name key, a source archive only
      [assets |-> << >>, tarball_url |-> Tarball(repo, "HEAD")],
      \* no tag_name key, an archive asset
      [assets |-> << Asset(repo, "latest", "app-1.2.0.zip") >>],
      \* an empty document
      << >> }

(***************************************************************************)
(* download_app, lines 169-190: the download link.                         *)
(***************************************************************************)
\* the for loop of lines 173-178: index of the first asset whose name has an
\* archive suffix, 0 when the loop ends without a break
RECURSIVE FirstArchiveFrom(_, _)
FirstArchiveFrom(assets, i) ==
    IF i > Len(assets) THEN 0
    ELSE IF IsArchiveName(assets[i].name) THEN i
    ELSE FirstArchiveFrom(assets, i + 1)

\* the loop has no break: the last asset with an archive suffix wins
LastArchive(assets) ==
    LET M == { i \in DOMAIN assets : IsArchiveName(assets[i].name) }
    IN  IF M = {} THEN 0 ELSE CHOOSE i \in M : \A j \in M : j <= i

FirstArchive(assets) == FirstArchiveFrom(assets, 1)

\* lines 170-185: [download_url, filename, raised]; raised: line 184 indexed a
\* release without tag_name
SelectAsset(app, release) ==
    LET assets == Get(release, "assets", << >>)
        i == FirstArchive(assets)
        url1 == IF i = 0 THEN NoneStr ELSE assets[i].browser_download_url
        name1 == IF i = 0 THEN NoneStr ELSE assets[i].name
    IN  IF ~FalsyStr(url1)
        THEN [download_url |-> url1, filename |-> name1, raised |-> FALSE]
        ELSE LET url2 == Get(release, "tarball_url", NoneStr)
             IN  IF FalsyStr(url2)
                 THEN [download_url |-> url2, filename |-> name1, raised |-> FALSE]
                 ELSE IF "tag_name" \in DOMAIN release
                 THEN [download_url |-> url2,
                       filename |-> app \o "-" \o release.tag_name \o ".tar.gz",
                       raised |-> FALSE]
                 ELSE [download_url |-> url2, filename |-> name1, raised |-> TRUE]

(***************************************************************************)
(* download_app, lines 203-217: the per-package record.                    *)
(***************************************************************************)
\* lines 204-213 raise KeyError when a key they index is absent
AppInfoRaises(repo, release) ==
    "tag_name" \notin DOMAIN release \/ "html_url" \notin DOMAIN repo

AppInfo(app, repo, release, fname, url, now) ==
    [id |-> app,
     name |-> Get(repo, "name", app),
     version |-> release.tag_name,
     description |-> Get(repo, "description", ""),
     downloaded_file |-> fname,
     download_url |-> url,
     repo_url |-> repo.html_url,
     download_date |-> now]

\* an existing file is kept as it is
WriteJsonKeep(old, new) == IF old = None THEN new ELSE old

\* open(info_file, 'w') + json.dump: the file holds the new document only
WriteJson(old, new) == new

(***************************************************************************)
(* download_apps, lines 242-250: the run report.                           *)
(***************************************************************************)
Digit(d) == SubSeq("0123456789", d + 1, d + 1)

\* decimal digits of a natural number
RECURSIVE IntToStr(_)
IntToStr(n) == IF n < 10 THEN Digit(n) ELSE IntToStr(n \div 10) \o Digit(n % 10)

\* num/den rounded down
RoundDivDown(num, den) == num \div den

\* num/den rounded to the nearest integer, ties to even (the rounding of
\* Python's float formatting on the values that arise here)
RoundDiv(num, den) ==
    LET q == num \div den
        r == num % den
    IN  IF 2 * r > den \/ (2 * r = den /\ q % 2 = 1) THEN q + 1 ELSE q

\* f"{x:.1f}" for x = tenths/10
FormatTenths(tenths) == IntToStr(tenths \div 10) \o "." \o Digit(tenths % 10)

\* line 249
SuccessRate(successful, n) ==
    IF n # 0 THEN FormatTenths(RoundDiv(successful * 1000, n)) \o "%" ELSE "0%"

\* lines 243-250
MakeReport(st, list, now) ==
    [download_date |-> now,
     total_apps |-> Len(list),
     successful_downloads |-> st.successful,
     failed_downloads |-> st.failed,
     failed_apps |-> st.failed_apps,
     success_rate |-> SuccessRate(st.successful, Len(list))]

(***************************************************************************)
(* main, lines 274-285: the list of packages to download.                  *)
(***************************************************************************)
\* position of the first "," of s at or after i, 0 when there is none
RECURSIVE FindComma(_, _)
FindComma(s, i) ==
    IF i > Len(s) THEN 0
    ELSE IF SubSeq(s, i, i) = "," THEN i
    ELSE FindComma(s, i + 1)

\* str.split(',')
RECURSIVE Split(_)
Split(s) ==
    LET c == FindComma(s, 1)
    IN  IF c = 0 THEN << s >>
        ELSE << SubSeq(s, 1, c - 1) >> \o Split(SubSeq(s, c + 1, Len(s)))

\* str.lstrip() and str.rstrip() on blanks
RECURSIVE LStrip(_)
LStrip(s) ==
    IF Len(s) > 0 /\ SubSeq(s, 1, 1) = " " THEN LStrip(SubSeq(s, 2, Len(s))) ELSE s

RECURSIVE RStrip(_)
RStrip(s) ==
    IF Len(s) > 0 /\ SubSeq(s, Len(s), Len(s)) = " "
    THEN RStrip(SubSeq(s, 1, Len(s) - 1)) ELSE s

\* str.strip()
Strip(s) == LStrip(RStrip(s))

Range(f) == { f[i] : i \in DOMAIN f }

\* line 278: [app.strip() for app in s.split(',') if app.strip()]
RECURSIVE StripNonEmpty(_)
StripNonEmpty(parts) ==
    IF parts = << >> THEN << >>
    ELSE LET rest == StripNonEmpty(Tail(parts))
         IN  IF Strip(Head(parts)) # "" THEN << Strip(Head(parts)) >> \o rest
             ELSE rest

\* lines 275-282: the list before deduplication
RequestedApps(custom_apps, skip_core) ==
    (IF FalsyStr(custom_apps) THEN << >> ELSE StripNonEmpty(Split(custom_apps)))
    \o (IF skip_core THEN << >> ELSE core_apps)

\* line 285, list(set(l)): the lists holding each element of l once, in any order
Deduplicated(l) ==
    LET S == Range(l)
        n == Cardinality(S)
    IN  { p \in [1..n -> S] : Range(p) = S }

\* values of --custom-apps; NoneStr: the flag is not given
CustomArgs == { NoneStr, " , ", " notify_push ,,calendar " }

\* package identifiers a library client passes
ApiApps == { "calendar" }

(***************************************************************************)
(* The statistics, lines 47-51, and the two places that record a failure.  *)
(***************************************************************************)
NewStats == [successful |-> 0, failed |-> 0, failed_apps |-> << >>]

\* the failure is listed and not counted
RecordFailureUncounted(st, app) == [st EXCEPT !.failed_apps = Append(@, app)]

\* the failure is counted and its identifier is not listed
RecordFailureUnlisted(st, app) == [st EXCEPT !.failed = @ + 1]

\* lines 156-157, 165-166, 188-189, 199-200, 225-226
RecordFailure(st, app) ==
    [st EXCEPT !.failed = @ + 1, !.failed_apps = Append(@, app)]

\* line 220
RecordSuccess(st) == [st EXCEPT !.successful = @ + 1]

\* the handler of lines 223-227 records the failure and raises again
EscapesAlways(raised) == raised

\* lines 223-227: "except Exception" ends in "return False": no exception
\* raised in download_app's try block leaves download_app
Escapes(raised) == FALSE

\* lines 236-240: the handler of download_apps
OuterHandler(st, app) ==
    [st EXCEPT !.failed = @ + 1,
               !.failed_apps = IF app \in Range(@) THEN @ ELSE Append(@, app)]

\* statistics after a download_app call that ended "ok" (line 220-221),
\* "fail" (an explicit return False) or "raise" (an exception in the try block)
StatsAfter(st, app, how, in_batch) ==
    IF how = "ok" THEN RecordSuccess(st)
    ELSE IF how = "fail" THEN RecordFailure(st, app)
    ELSE IF in_batch /\ Escapes(TRUE) THEN OuterHandler(RecordFailure(st, app), app)
    ELSE RecordFailure(st, app)

(***************************************************************************)
(* State.                                                                  *)
(***************************************************************************)
\* a file that was opened for writing and not completely written
Partial == [partial |-> TRUE]

fsVars == << dirs, archives, info, report_file >>
localVars == << app_id, probe, repo_info, release_info, download_url, filename >>

\* a new process on an apps directory that holds nothing yet
Init ==
    /\ pc = "start"
    /\ caller = "main"
    /\ runs = 0
    /\ calls = 0
    /\ batches = 0
    /\ clock = 1
    /\ exit_code = NoExit
    /\ argv = [custom_apps |-> NoneStr, skip_core |-> FALSE]
    /\ prior = << >>
    /\ stats = NewStats
    /\ app_list = << >>
    /\ idx = 0
    /\ app_id = NoneStr
    /\ probe = 0
    /\ repo_info = None
    /\ release_info = None
    /\ download_url = NoneStr
    /\ filename = NoneStr
    /\ dirs = {}
    /\ archives = {}
    /\ info = << >>
    /\ report_file = None
    /\ report = None
    /\ lookups = << >>
    /\ steps = << >>
    /\ returned = << >>
    /\ reports_written = 0

\* a library client holding a downloader it has just constructed, lines 32-51
InitApi ==
    /\ pc = "idle"
    /\ caller = "api_app"
    /\ runs = 1
    /\ calls = 0
    /\ batches = 0
    /\ clock = 1
    /\ exit_code = NoExit
    /\ argv = [custom_apps |-> NoneStr, skip_core |-> FALSE]
    /\ prior = << >>
    /\ stats = NewStats
    /\ app_list = << >>
    /\ idx = 0
    /\ app_id = NoneStr
    /\ probe = 0
    /\ repo_info = None
    /\ release_info = None
    /\ download_url = NoneStr
    /\ filename = NoneStr
    /\ dirs = {}
    /\ archives = {}
    /\ info = << >>
    /\ report_file = None
    /\ report = None
    /\ lookups = << >>
    /\ steps = << >>
    /\ returned = << >>
    /\ reports_written = 0

(***************************************************************************)
(* main, lines 260-294.                                                    *)
(***************************************************************************)
\* a process started with one of the command lines cmds: the downloader is
\* constructed (lines 272, 47-51), the list is computed (275-285), and the
\* process exits with 1 when the list is empty (287-289)
MainStartWith(cmds) ==
    /\ pc = "start"
    /\ \E cmd \in cmds :
       \E l \in Deduplicated(RequestedApps(cmd.custom_apps, cmd.skip_core)) :
          /\ argv' = cmd
          /\ app_list' = l
          /\ pc' = IF l = << >> THEN "exited" ELSE "loop"
          /\ exit_code' = IF l = << >> THEN 1 ELSE NoExit
    /\ prior' = info
    /\ caller' = "main"
    /\ runs' = runs + 1
    /\ calls' = 0
    /\ batches' = 1
    /\ stats' = NewStats
    /\ idx' = 0
    /\ returned' = << >>
    /\ reports_written' = 0
    /\ lookups' = << >>
    /\ steps' = << >>
    /\ UNCHANGED << clock, report, fsVars, localVars >>

CmdLines == [custom_apps : CustomArgs, skip_core : BOOLEAN]

MainStart == MainStartWith(CmdLines)

\* command lines naming one package
OnePackageCmdLines == [custom_apps : {"calendar", " deck,"}, skip_core : {TRUE}]

MainStartOne == MainStartWith(OnePackageCmdLines)

\* the program is started again on the same apps directory
Rerun ==
    /\ pc = "exited"
    /\ runs < MaxRuns
    /\ pc' = "start"
    /\ clock' = clock + 1
    /\ exit_code' = NoExit
    /\ report' = None
    /\ app_list' = << >>
    /\ UNCHANGED << caller, runs, calls, batches, argv, prior, stats, idx, returned,
                    reports_written, lookups, steps, fsVars, localVars >>

\* the exit status is 1 only when no package succeeded
ExitStatusLenient(rep) == IF rep.successful_downloads = 0 THEN 1 ELSE 0

\* lines 305-307, and the end of main: the exit status
ExitStatus(rep) == IF rep.failed_downloads > 0 THEN 1 ELSE 0

\* lines 296-307
MainFinish ==
    /\ pc = "finish"
    /\ exit_code' = ExitStatus(report)
    /\ pc' = "exited"
    /\ UNCHANGED << caller, runs, calls, batches, clock, argv, prior, stats,
                    app_list, idx,
                    report, returned, reports_written, lookups, steps, fsVars,
                    localVars >>

(***************************************************************************)
(* A library client.                                                       *)
(***************************************************************************)
\* the frame of a download_app call that begins
BeginCall(app) ==
    /\ app_id' = app
    /\ probe' = 1
    /\ repo_info' = None
    /\ release_info' = None
    /\ download_url' = NoneStr
    /\ filename' = NoneStr
    /\ lookups' = << >>
    /\ steps' = << >>
    /\ calls' = calls + 1
    /\ pc' = "resolve"

\* downloader.download_app(app)
ApiDownloadApp ==
    /\ pc = "idle"
    /\ calls < MaxCalls
    /\ \E app \in ApiApps : BeginCall(app)
    /\ caller' = "api_app"
    /\ returned' = << >>
    /\ UNCHANGED << runs, batches, clock, exit_code, argv, prior, stats,
                    app_list, idx, report, reports_written, fsVars >>

ApiLists == UNION { [1..n -> ApiApps] : n \in 0..MaxListLen }

\* downloader.download_apps(l)
ApiDownloadApps ==
    /\ pc = "idle"
    /\ batches < MaxBatches
    /\ batches' = batches + 1
    /\ \E l \in ApiLists :
          /\ calls + Len(l) <= MaxCalls
          /\ app_list' = l
    /\ caller' = "api_apps"
    /\ idx' = 0
    /\ returned' = << >>
    /\ reports_written' = 0
    /\ pc' = "loop"
    /\ UNCHANGED << runs, calls, clock, exit_code, argv, prior, stats, report,
                    lookups, steps, fsVars, localVars >>

(***************************************************************************)
(* download_apps, lines 229-258.                                           *)
(***************************************************************************)
\* the loop ends at the first package that failed
LoopStopsOnFailure(i, list, results) ==
    i < Len(list) /\ (results = << >> \/ results[Len(results)][2])

\* line 233: the for loop has another identifier to take
LoopContinues(i, list, results) == i < Len(list)

\* line 233: the for loop takes the next identifier and calls download_app,
\* or ends
LoopNext ==
    /\ pc = "loop"
    /\ IF LoopContinues(idx, app_list, returned)
       THEN /\ idx' = idx + 1
            /\ BeginCall(app_list[idx + 1])
       ELSE /\ pc' = "report"
            /\ UNCHANGED << idx, calls, lookups, steps, localVars >>
    /\ UNCHANGED << caller, runs, batches, clock, exit_code, argv, prior,
                    stats, app_list, report, returned, reports_written, fsVars >>

\* lines 242-258: the report is built, written and returned
WriteReport ==
    /\ pc = "report"
    /\ report' = MakeReport(stats, app_list, clock)
    /\ report_file' = WriteJson(report_file, report')
    /\ reports_written' = reports_written + 1
    /\ pc' = IF caller = "main" THEN "finish" ELSE "idle"
    /\ UNCHANGED << caller, runs, calls, batches, clock, exit_code, argv,
                    prior, stats, app_list, idx, returned, lookups, steps, dirs,
                    archives, info, localVars >>

(***************************************************************************)
(* download_app, lines 148-227, one action per request or file operation.  *)
(***************************************************************************)
\* download_app returns: "ok" (line 221), "fail" (an explicit return False) or
\* "raise" (an exception of the try block, lines 223-227, and 236-240 if it
\* left download_app); the frame is dropped.  A report returned earlier by
\* this downloader holds the failed_apps list itself (line 248), not a copy
EndCall(how) ==
    /\ stats' = StatsAfter(stats, app_id, how, caller # "api_app")
    /\ returned' = Append(returned, << app_id, how = "ok" >>)
    /\ report' = IF report = None THEN report
                 ELSE [report EXCEPT !.failed_apps = stats'.failed_apps]
    /\ pc' = IF caller = "api_app" THEN "idle" ELSE "loop"
    /\ probe' = 0
    /\ repo_info' = None
    /\ release_info' = None
    /\ download_url' = NoneStr
    /\ filename' = NoneStr
    /\ UNCHANGED app_id

\* the step has been executed, with or without success
Done(step, ok) == steps' = Append(steps, [step |-> step, ok |-> ok])

\* only a 404 sends the loop on to the next name
NextCandidateOn404(status) == status = 404

\* get_app_repo_info's for loop goes on after this answer, lines 68-76
NextCandidate(status) == status # 200 /\ status # TransportError

\* get_app_repo_info, lines 63-76: one lookup; then lines 155-160
Probe ==
    /\ pc = "resolve"
    /\ \E status \in LookupStatus :
       /\ lookups' = Append(lookups, [repo |-> possible_repos(app_id)[probe],
                                      status |-> status])
       /\ IF status = 200
          THEN \E body \in RepoBodies(app_id, probe) :
                  IF Falsy(body)
                  THEN Done("resolve", FALSE) /\ EndCall("fail")
                  ELSE /\ Done("resolve", TRUE)
                       /\ repo_info' = body
                       /\ pc' = "release"
                       /\ UNCHANGED << stats, returned, report, app_id, probe,
                                       release_info, download_url, filename >>
          ELSE IF NextCandidate(status) /\ probe < Len(possible_repos(app_id))
          THEN /\ probe' = probe + 1
               /\ UNCHANGED << pc, steps, stats, returned, report, app_id, repo_info,
                               release_info, download_url, filename >>
          ELSE Done("resolve", FALSE) /\ EndCall("fail")
    /\ UNCHANGED << caller, runs, calls, batches, clock, exit_code, argv, prior,
                    app_list, idx, reports_written, fsVars >>

\* get_latest_release, lines 85-102; then lines 164-167
FetchRelease ==
    /\ pc = "release"
    /\ \E status \in ReleaseStatus :
          IF status = 200
          THEN \E body \in Releases(repo_info.full_name) :
                  IF Falsy(body)
                  THEN Done("release", FALSE) /\ EndCall("fail")
                  ELSE /\ Done("release", TRUE)
                       /\ release_info' = body
                       /\ pc' = "select"
                       /\ UNCHANGED << stats, returned, report, app_id, probe, repo_info,
                                       download_url, filename >>
          ELSE Done("release", FALSE) /\ EndCall("fail")
    /\ UNCHANGED << caller, runs, calls, batches, clock, exit_code, argv, prior,
                    app_list, idx, reports_written, lookups, fsVars >>

\* lines 169-190
Select ==
    /\ pc = "select"
    /\ LET sel == SelectAsset(app_id, release_info)
       IN  IF sel.raised
           THEN Done("select", FALSE) /\ EndCall("raise")
           ELSE IF FalsyStr(sel.download_url)
           THEN Done("select", FALSE) /\ EndCall("fail")
           ELSE /\ Done("select", TRUE)
                /\ download_url' = sel.download_url
                /\ filename' = sel.filename
                /\ pc' = "mkdir"
                /\ UNCHANGED << stats, returned, report, app_id, probe, repo_info,
                                release_info >>
    /\ UNCHANGED << caller, runs, calls, batches, clock, exit_code, argv, prior,
                    app_list, idx, reports_written, lookups, fsVars >>

\* lines 193-194: app_dir.mkdir(exist_ok=True) creates the directory or raises
MakeDir ==
    /\ pc = "mkdir"
    /\ \E ok \in BOOLEAN :
       /\ Done("mkdir", ok)
       /\ IF ok
          THEN /\ dirs' = dirs \cup { app_id }
               /\ pc' = "download"
               /\ UNCHANGED << stats, returned, report, localVars >>
          ELSE /\ EndCall("raise")
               /\ UNCHANGED dirs
    /\ UNCHANGED << caller, runs, calls, batches, clock, exit_code, argv, prior,
                    app_list, idx, reports_written, lookups, archives,
                    info, report_file >>

\* the result of download_file is not looked at
DownloadAssumedOk(outcome) == TRUE

\* download_file returns True, line 120, only when the whole file was written
DownloadSucceeded(outcome) == outcome = "ok"

\* download_file, lines 104-124, as called on lines 197-201: the file is
\* written ("ok"), the request fails or its answer is not 2xx and nothing is
\* written ("status"), or the transfer breaks after the file was opened
\* ("broken"); line 112 makes the directory if it is not there
Download ==
    /\ pc = "download"
    /\ \E outcome \in { "ok", "status", "broken" } :
       /\ Done("download", outcome = "ok")
       /\ archives' = IF outcome = "status" THEN archives
                      ELSE archives \cup { << app_id, filename >> }
       /\ dirs' = IF outcome = "status" THEN dirs ELSE dirs \cup { app_id }
       /\ IF DownloadSucceeded(outcome)
          THEN /\ pc' = "manifest"
               /\ UNCHANGED << stats, returned, report, localVars >>
          ELSE EndCall("fail")
    /\ UNCHANGED << caller, runs, calls, batches, clock, exit_code, argv, prior,
                    app_list, idx, reports_written, lookups, info, report_file >>

\* lines 203-221: the record is built and written; open() raises and leaves
\* the file as it was ("open"), or json.dump raises after open() emptied it
\* ("dump")
WriteInfo ==
    /\ pc = "manifest"
    /\ IF AppInfoRaises(repo_info, release_info)
       THEN /\ Done("manifest", FALSE)
            /\ EndCall("raise")
            /\ UNCHANGED info
       ELSE \E outcome \in { "ok", "open", "dump" } :
               LET old == IF app_id \in DOMAIN info THEN info[app_id] ELSE None
                   new == AppInfo(app_id, repo_info, release_info, filename,
                                  download_url, clock)
               IN  /\ Done("manifest", outcome = "ok")
                   /\ info' = IF outcome = "open" THEN info
                              ELSE IF outcome = "dump"
                              THEN (app_id :> Partial) @@ info
                              ELSE (app_id :> WriteJson(old, new)) @@ info
                   /\ EndCall(IF outcome = "ok" THEN "ok" ELSE "raise")
    /\ UNCHANGED << caller, runs, calls, batches, clock, exit_code, argv, prior,
                    app_list, idx, reports_written, lookups, dirs,
                    archives, report_file >>

StepActions ==
    \/ LoopNext
    \/ Probe
    \/ FetchRelease
    \/ Select
    \/ MakeDir
    \/ Download
    \/ WriteInfo
    \/ WriteReport

\* one run of the program
Next == MainStart \/ StepActions \/ MainFinish

Spec == Init /\ [][Next]_vars

\* the program run repeatedly on one apps directory, one package a run
NextRerun == MainStartOne \/ Rerun \/ StepActions \/ MainFinish

SpecRerun == Init /\ [][NextRerun]_vars

\* a library client calling one downloader
NextApi == ApiDownloadApp \/ ApiDownloadApps \/ StepActions

SpecApi == InitApi /\ [][NextApi]_vars

(***************************************************************************)
(* Properties.                                                             *)
(***************************************************************************)
\* identifiers of the download_app calls of results that returned False, in
\* call order
RECURSIVE FailedOf(_)
FailedOf(results) ==
    IF results = << >> THEN << >>
    ELSE (IF Head(results)[2] THEN << >> ELSE << Head(results)[1] >>)
         \o FailedOf(Tail(results))

NoDuplicates(l) == \A i, j \in DOMAIN l : l[i] = l[j] => i = j

\* C1: in a run of the program, the report download_apps returns for a
\* non-empty list satisfies successful_downloads + failed_downloads =
\* total_apps, whatever the outcome of each package's steps was.
C1_CountsAddUp ==
    (report # None /\ report.total_apps > 0) =>
        report.successful_downloads + report.failed_downloads = report.total_apps

\* a report of a run in which one package succeeded and another failed
C1_Witness ==
    /\ report # None
    /\ report.successful_downloads = 1
    /\ report.failed_downloads = 1

\* C2: in a run of the program, the failed_apps list of the report holds
\* exactly the identifiers for which download_app returned False, each of
\* them once.
C2_FailedAppsExact ==
    report # None =>
        /\ report.failed_apps = FailedOf(returned)
        /\ NoDuplicates(report.failed_apps)
        /\ \A i \in DOMAIN returned :
              ~returned[i][2] <=>
                  Cardinality({ j \in DOMAIN report.failed_apps :
                                  report.failed_apps[j] = returned[i][1] }) = 1

\* a report listing a package that failed with an exception of the try block
\* (the package directory could not be created)
C2_Witness ==
    /\ report # None
    /\ Len(report.failed_apps) = 1
    /\ Len(returned) = 2
    /\ steps # << >>
    /\ steps[Len(steps)] = [step |-> "mkdir", ok |-> FALSE]

\* the --custom-apps value names at least one package
HasName(s) ==
    s # NoneStr /\ \E i \in 1..Len(s) : SubSeq(s, i, i) \notin { ",", " " }

Last(l) == l[Len(l)]

\* positions inside a download_app call
CallPcs == { "resolve", "release", "select", "mkdir", "download", "manifest" }

\* C4: get_app_repo_info looks the names up in the order nextcloud/<id>,
\* nextcloud/apps_<id>, nextcloud-releases/<id>; after a 404 or another
\* non-200 status it goes on to the next name; it returns the descriptor of
\* the first name answering 200 and makes no further lookup; it returns
\* not-found when the three names are exhausted.
C4_ResolverOrder ==
    /\ Len(lookups) <= 3
    /\ \A i \in DOMAIN lookups :
          lookups[i].repo = (CASE i = 1 -> "nextcloud/" \o app_id
                               [] i = 2 -> "nextcloud/apps_" \o app_id
                               [] i = 3 -> "nextcloud-releases/" \o app_id)
    /\ \A i \in 1..(Len(lookups) - 1) : lookups[i].status \in { 404, 500 }
    /\ pc = "resolve" => probe = Len(lookups) + 1
    /\ (lookups # << >> /\ Last(lookups).status \in { 404, 500 }) =>
          IF Len(lookups) < 3
          THEN pc = "resolve"
          ELSE /\ pc \notin CallPcs
               /\ repo_info = None
               /\ steps = << [step |-> "resolve", ok |-> FALSE] >>
               /\ Last(returned) = << app_id, FALSE >>
    /\ repo_info # None =>
          /\ Last(lookups).status = 200
          /\ repo_info.full_name = Last(lookups).repo
          /\ repo_info.html_url = "https://github.com/" \o Last(lookups).repo

\* the first two names answered 404, the third 200, and its descriptor is the
\* one download_app goes on with
C4_Witness ==
    /\ pc = "release"
    /\ Len(lookups) = 3
    /\ lookups[1].status = 404
    /\ lookups[2].status = 404
    /\ lookups[3].status = 200
    /\ repo_info.full_name = "nextcloud-releases/" \o app_id

\* name ends with suf
HasSuffix(name, suf) == \E k \in 1..Len(name) : SubSeq(name, k, Len(name)) = suf

ArchiveAssets(release) ==
    IF "assets" \in DOMAIN release
    THEN { i \in DOMAIN release.assets :
             \/ HasSuffix(release.assets[i].name, ".tar.gz")
             \/ HasSuffix(release.assets[i].name, ".zip") }
    ELSE {}

SourceArchive(release) ==
    IF "tarball_url" \in DOMAIN release THEN release.tarball_url ELSE ""

AssetNames(release) == [ i \in DOMAIN release.assets |-> release.assets[i].name ]

\* the download link is the first asset, in listed order, named *.tar.gz or
\* *.zip, and otherwise the source archive under the name <id>-<tag>.tar.gz
C5_Selected ==
    pc \in { "mkdir", "download", "manifest" } =>
        LET M == ArchiveAssets(release_info)
        IN  /\ IF M # {}
               THEN \E i \in M :
                       /\ \A j \in M : i <= j
                       /\ filename = release_info.assets[i].name
                       /\ download_url = release_info.assets[i].browser_download_url
               ELSE /\ SourceArchive(release_info) # ""
                    /\ download_url = SourceArchive(release_info)
                    /\ filename = app_id \o "-" \o release_info.tag_name \o ".tar.gz"
            /\ ("assets" \in DOMAIN release_info
                /\ AssetNames(release_info)
                     = << "readme.md", "app-1.2.0.tar.gz", "app-1.2.0.zip" >>)
               => filename = "app-1.2.0.tar.gz"

\* a release with no archive asset and no source archive fails the package
\* at the selection, before anything is created or downloaded
C5_NoLinkFails ==
    (pc = "select" /\ ArchiveAssets(release_info) = {}
                   /\ SourceArchive(release_info) = "")
    => /\ pc' \notin CallPcs
       /\ stats'.failed = stats.failed + 1
       /\ Last(returned') = << app_id, FALSE >>
       /\ Last(steps') = [step |-> "select", ok |-> FALSE]
       /\ UNCHANGED << dirs, archives, info >>

\* C5: the asset selection of download_app picks the first asset in listed
\* order whose name ends in .tar.gz or .zip; without such an asset it uses a
\* non-empty source-archive URL under the name <id>-<tag>.tar.gz; with
\* neither, the package fails and nothing is downloaded.
C5_AssetSelection == []C5_Selected /\ [][C5_NoLinkFails]_vars

\* the release lists readme.md, app-1.2.0.tar.gz, app-1.2.0.zip and the
\* tar.gz has been selected for download
C5_Witness ==
    /\ pc = "download"
    /\ AssetNames(release_info) = << "readme.md", "app-1.2.0.tar.gz", "app-1.2.0.zip" >>
    /\ filename = "app-1.2.0.tar.gz"

StepOrder == << "resolve", "release", "select", "mkdir", "download", "manifest" >>

\* the steps run in the fixed order, each only after all before it succeeded,
\* and a step that failed ended the call with a failure
C6_Ordered ==
    /\ Len(steps) <= Len(StepOrder)
    /\ \A i \in DOMAIN steps : steps[i].step = StepOrder[i]
    /\ \A i \in 1..(Len(steps) - 1) : steps[i].ok
    /\ pc \in CallPcs => /\ \A i \in DOMAIN steps : steps[i].ok
                         /\ Len(steps) < Len(StepOrder)
                         /\ pc = StepOrder[Len(steps) + 1]
    /\ (steps # << >> /\ ~Last(steps).ok) =>
          /\ pc \notin CallPcs
          /\ Last(returned) = << app_id, FALSE >>

\* a file or directory of the package changes only in the step that owns it
C6_Effects ==
    /\ info' # info => /\ Len(steps') = 6
                       /\ steps'[5] = [step |-> "download", ok |-> TRUE]
    /\ dirs' # dirs => steps' = << [step |-> "resolve", ok |-> TRUE],
                                  [step |-> "release", ok |-> TRUE],
                                  [step |-> "select", ok |-> TRUE],
                                  [step |-> "mkdir", ok |-> TRUE] >>
    /\ archives' # archives => Len(steps') = 5
    /\ (pc = "download" /\ ~Last(steps').ok) =>
          /\ info' = info
          /\ pc' \notin CallPcs
          /\ stats'.failed = stats.failed + 1

\* C6: download_app runs resolve, release, select, make directory, download,
\* write info.json in this order and stops at the first step that fails; a
\* failed download writes no info.json and a failure before the selection
\* is complete creates no package directory.
C6_StepOrder == []C6_Ordered /\ [][C6_Effects]_vars

\* a call has ended at a failed download: the directory exists, no info.json
C6_Witness ==
    /\ Len(steps) = 5
    /\ Last(steps) = [step |-> "download", ok |-> FALSE]
    /\ app_id \in dirs
    /\ app_id \notin DOMAIN info
    /\ pc = "loop"

RECURSIVE Successes(_)
Successes(results) ==
    IF results = << >> THEN 0
    ELSE (IF Head(results)[2] THEN 1 ELSE 0) + Successes(Tail(results))

\* a successful download leaves exactly the new record in info.json
C8_InfoReplaced ==
    (pc = "manifest" /\ stats'.successful = stats.successful + 1) =>
        /\ app_id \in DOMAIN info'
        /\ info'[app_id] =
              [id |-> app_id,
               name |-> IF "name" \in DOMAIN repo_info THEN repo_info.name ELSE app_id,
               version |-> release_info.tag_name,
               description |-> IF "description" \in DOMAIN repo_info
                               THEN repo_info.description ELSE "",
               downloaded_file |-> filename,
               download_url |-> download_url,
               repo_url |-> repo_info.html_url,
               download_date |-> clock]

\* the report on disk after a run counts that run only
C8_ReportOfThisRun ==
    (pc \in { "finish", "exited" } /\ app_list # << >>) =>
        /\ report_file # None
        /\ report_file.download_date = clock
        /\ report_file.total_apps = Len(app_list)
        /\ report_file.successful_downloads = Successes(returned)
        /\ report_file.failed_downloads = Len(returned) - Successes(returned)
        /\ report_file.failed_apps = FailedOf(returned)

DigitValue(c) ==
    CASE c = "0" -> 0 [] c = "1" -> 1 [] c = "2" -> 2 [] c = "3" -> 3
      [] c = "4" -> 4 [] c = "5" -> 5 [] c = "6" -> 6 [] c = "7" -> 7
      [] c = "8" -> 8 [] c = "9" -> 9

IsDigits(s) ==
    /\ Len(s) >= 1
    /\ \A i \in 1..Len(s) :
          SubSeq(s, i, i) \in { "0", "1", "2", "3", "4", "5", "6", "7", "8", "9" }

\* the number a string of digits denotes
RECURSIVE ParseNat(_)
ParseNat(s) ==
    IF Len(s) = 0 THEN 0
    ELSE 10 * ParseNat(SubSeq(s, 1, Len(s) - 1)) + DigitValue(SubSeq(s, Len(s), Len(s)))

Abs(x) == IF x < 0 THEN 0 - x ELSE x

\* C9: success_rate is "0%" for an empty list; for N > 0 requested and S
\* successes it is digits, a point, one digit and "%", and the number
\* written is the tenth nearest to S/N*100.
C9_SuccessRate ==
    report # None =>
        LET s == report.success_rate
            N == report.total_apps
            S == report.successful_downloads
            n == Len(s)
        IN  IF N = 0 THEN s = "0%"
            ELSE /\ n >= 4
                 /\ SubSeq(s, n, n) = "%"
                 /\ SubSeq(s, n - 2, n - 2) = "."
                 /\ IsDigits(SubSeq(s, n - 1, n - 1))
                 /\ IsDigits(SubSeq(s, 1, n - 3))
                 /\ (n > 4 => SubSeq(s, 1, 1) # "0")
                 /\ LET tenths == 10 * ParseNat(SubSeq(s, 1, n - 3))
                                  + DigitValue(SubSeq(s, n - 1, n - 1))
                    IN  2 * Abs(tenths * N - 1000 * S) <= N

\* two of three requested packages succeeded
C9_Witness ==
    /\ report # None
    /\ report.total_apps = 3
    /\ report.successful_downloads = 2
    /\ report.success_rate = "66.7%"

\* the failure counter is the length of the failed list, and every call made
\* is counted once
C10_Counters ==
    /\ stats.failed = Len(stats.failed_apps)
    /\ stats.successful + stats.failed
          = calls - (IF pc \in CallPcs THEN 1 ELSE 0)

\* the statistics change when a download_app call returns and only then, and
\* then one counter grows by one
C10_OnePerCall ==
    /\ stats' # stats => pc \in CallPcs /\ pc' \notin CallPcs
    /\ (pc \in CallPcs /\ pc' \notin CallPcs) =>
          \/ /\ stats'.successful = stats.successful + 1
             /\ stats'.failed = stats.failed
             /\ stats'.failed_apps = stats.failed_apps
          \/ /\ stats'.successful = stats.successful
             /\ stats'.failed = stats.failed + 1
             /\ stats'.failed_apps = Append(stats.failed_apps, app_id)

\* C10: whatever download_app and download_apps calls are made on one
\* downloader, the failure counter equals the length of failed_apps, and each
\* download_app call changes exactly one of the two counters, by one.
C10_CounterDiscipline == []C10_Counters /\ [][C10_OnePerCall]_vars

\* one downloader after a direct call and a batch: one success, two failures,
\* the last of them an exception of the try block inside a batch
C10_Witness ==
    /\ pc = "idle"
    /\ batches = 1
    /\ caller = "api_apps"
    /\ Len(app_list) = 2
    /\ calls = 3
    /\ stats.successful = 1
    /\ stats.failed = 2
    /\ Last(steps) = [step |-> "manifest", ok |-> FALSE]

====
